---- MODULE Spec2Model ----
(***************************************************************************)
(* Model of external-store (src/src/main.tsx): the snapshot container      *)
(* ExternalStore (setState / reset / #notify) and the task lifecycle of    *)
(* AsyncExternalStore (setStateAsync / hydrate), with the suspense read    *)
(* path wrapSelectorForSuspense.                                           *)
(*                                                                         *)
(* A snapshot is a record over the six keys of AsyncState; a key that the  *)
(* JavaScript object does not have holds Absent (NoPromise for the         *)
(* handle).  setState is the shallow merge { ...prev, ...next }: an update *)
(* is a record over the keys its object literal names, and only those keys *)
(* are overwritten.                                                        *)
(*                                                                         *)
(* Three specifications share the variables: Spec is an AsyncExternalStore *)
(* driven by setStateAsync / hydrate / reset, SyncSpec is a subclass of    *)
(* SyncExternalStore with listeners, ProviderSpec is createProvider and    *)
(* the hook it returns.                                                    *)
(***************************************************************************)
EXTENDS Integers, Sequences, FiniteSets, TLC

VARIABLES
    state,            \* ExternalStore.#state
    stateRef,         \* identity of the object in #state: 0 is the object given
                      \* to the constructor, each assignment of #state holds a new one
    stateIsInitial,   \* #state is the very object held in #initialState
    seed,             \* constructor argument initialData (Absent when none)
    promises,         \* every handle made by promiseWithResolvers, by id
    tasks,            \* every setStateAsync call: producer, controller, chain,
                      \* with the status it started from (prevState) and the
                      \* handle of the pending snapshot it installed
    controller,       \* AsyncExternalStore.#controller (0 is null)
    notifications,    \* number of #notify passes so far
    resets,           \* number of reset() calls so far
    staleData,        \* history: data of the idle snapshot a task left, until a commit
    overlapping,      \* history: every task so far was issued while its predecessor was in flight
    subscribers,      \* ExternalStore.#subscribers, a Set, in insertion order
    behaviour,        \* what each listener function does when it is invoked
    calls,            \* history: the listener invocations of the latest setState call
    closures,         \* for each listener, the function its first subscribe call returned:
                      \* "none" yet, "held" by the caller, or already "called"
    lastCall,         \* history: the latest call made on the synchronous store
    hook              \* createProvider: its argument, the store in scope, the hook's call

asyncVars == <<seed, promises, tasks, controller, resets, staleData, overlapping>>

listenerVars == <<subscribers, behaviour, calls>>

syncVars == <<closures, lastCall>>

vars == <<state, stateRef, stateIsInitial, seed, promises, tasks, controller,
          notifications, resets, staleData, overlapping,
          subscribers, behaviour, calls, closures, lastCall, hook>>

----------------------------------------------------------------------------
(* Bounds *)

MaxTasks == 3
MaxResets == 1
MaxMerges == 2

----------------------------------------------------------------------------
(* Values *)

Absent == "absent"
NoPromise == 0

Data == {"d1", "d2"}
\* values a producer can fail with: instances of Error, and anything else
Errors == {"e1"}
NonErrors == {"c1"}
Causes == Errors \cup NonErrors

\* a producer either returns a value, throws, or returns a promise that
\* later resolves or rejects (what is thrown synchronously is never looked
\* at, so one thrown value stands for all)
Producers ==
    [kind : {"value", "resolve"}, value : Data] \cup
    [kind : {"reject"}, value : Causes] \cup
    [kind : {"throw"}, value : Errors]

\* the initialData a store can be constructed with
Seeds == {"d1"}

\* the user's selector, applied to the data
selector(d) == <<"selected", d>>

----------------------------------------------------------------------------
(* Snapshot container *)

\* an object literal that names only some keys, as a full record
Complete(partial) ==
    [k \in {"status", "loading", "refreshing", "data", "error", "promise"} |->
        IF k \in DOMAIN partial THEN partial[k]
        ELSE IF k = "promise" THEN NoPromise ELSE Absent]

\* { ...prev, ...next }
MergeKeepPrev(prev, next) == prev

Merge(prev, next) ==
    [k \in DOMAIN prev |-> IF k \in DOMAIN next THEN next[k] ELSE prev[k]]

\* the argument of super(...) in the AsyncExternalStore constructor
InitialState(initialData) ==
    IF initialData # Absent
    THEN [status |-> "idle", loading |-> FALSE, refreshing |-> FALSE, data |-> initialData]
    ELSE [status |-> "uninitialized", loading |-> FALSE, refreshing |-> FALSE, promise |-> 1]

----------------------------------------------------------------------------
(* Listeners *)

\* the functions passed to subscribe
Listeners == {"f1", "f2"}

\* what a listener of the synchronous store does when invoked: nothing,
\* subscribe(arg), call the unsubscribe function that subscribe(arg)
\* returned, or call setState:
\* if (store.state.count === 0) store.setState({ count: 1 })
Behaviours(l) ==
    [op : {"nothing", "setState"}, arg : {l}] \cup
    [op : {"subscribe", "unsubscribe"}, arg : Listeners]

\* The Set during a pass: its entries in insertion order, where an entry
\* deleted during the pass stays in place, marked dead, so that the
\* iterator's position is kept.
Entries(subs) == [i \in 1..Len(subs) |-> [fn |-> subs[i], live |-> TRUE]]

IsLive(entries, fn) ==
    \E i \in 1..Len(entries) : entries[i].fn = fn /\ entries[i].live

\* Set.prototype.add: an element already in the set keeps its place
SetAdd(entries, fn) ==
    IF IsLive(entries, fn) THEN entries
    ELSE Append(entries, [fn |-> fn, live |-> TRUE])

\* Set.prototype.delete
SetDelete(entries, fn) ==
    [i \in 1..Len(entries) |->
        IF entries[i].fn = fn THEN [fn |-> fn, live |-> FALSE] ELSE entries[i]]

\* the elements of the set, in insertion order
RECURSIVE Elements(_)
Elements(entries) ==
    IF entries = <<>> THEN <<>>
    ELSE IF entries[1].live THEN <<entries[1].fn>> \o Elements(Tail(entries))
         ELSE Elements(Tail(entries))

\* the private fields of the store while a setState call runs, with the log
\* of the listener invocations the call has made
Store ==
    [entries    |-> Entries(subscribers),
     state      |-> state,
     ref        |-> stateRef,
     merges     |-> notifications,
     log        |-> <<>>,
     promises   |-> promises,
     tasks      |-> tasks,
     controller |-> controller,
     fired      |-> \E t \in 1..Len(tasks) : tasks[t].nested]

\* the producer of the task a listener starts
Refetch == [kind |-> "resolve", value |-> "d2"]

RECURSIVE NotifyFrom(_, _, _)
RECURSIVE SetStateAsyncOn(_, _, _)

\* #notify()
notify(s) == NotifyFrom(s, 1, s.merges)

\* this.#state = { ...prev, ...next }; this.#notify()
Install(s, next) ==
    notify([s EXCEPT !.state = Merge(s.state, next),
                     !.ref = s.ref + 1,
                     !.merges = s.merges + 1])

\* the body of listener fn, run against the store
Invoke(fn, s) ==
    CASE behaviour[fn].op = "nothing" -> s
      [] behaviour[fn].op = "subscribe" ->
            [s EXCEPT !.entries = SetAdd(s.entries, behaviour[fn].arg)]
      [] behaviour[fn].op = "unsubscribe" ->
            [s EXCEPT !.entries = SetDelete(s.entries, behaviour[fn].arg)]
      [] behaviour[fn].op = "setState" ->
            IF s.state.count = 0 THEN Install(s, [count |-> 1]) ELSE s
      [] behaviour[fn].op = "setStateAsync" ->
            IF s.state.status = "pending" /\ ~s.fired
            THEN SetStateAsyncOn([s EXCEPT !.fired = TRUE], Refetch, TRUE)
            ELSE s

\* for (const fn of this.#subscribers) fn(): the iterator walks the live
\* set, so it skips an entry deleted before its turn and reaches an entry
\* added during the pass.  Each invocation is logged with what the state
\* getter returns when it starts and with the merge whose pass makes it.
NotifyFrom(s, i, pass) ==
    IF i > Len(s.entries) THEN s
    ELSE IF ~s.entries[i].live THEN NotifyFrom(s, i + 1, pass)
    ELSE NotifyFrom(
            Invoke(s.entries[i].fn,
                   [s EXCEPT !.log = Append(s.log, [fn   |-> s.entries[i].fn,
                                                    seen |-> s.state,
                                                    pass |-> pass])]),
            i + 1, pass)

\* ExternalStore.setState(update), from the resolved update on; sameObject
\* is Object.is(prev, next)
setStateAlways(next, sameObject) ==
    \E s \in {Install(Store, next)} :
    /\ state' = s.state
    /\ stateRef' = s.ref
    /\ stateIsInitial' = FALSE
    /\ notifications' = s.merges
    /\ subscribers' = Elements(s.entries)
    /\ calls' = s.log

setStateSilent(next, sameObject) ==
    IF sameObject
    THEN UNCHANGED <<state, stateRef, stateIsInitial, notifications, subscribers, calls>>
    ELSE /\ state' = Merge(state, next)
         /\ stateRef' = stateRef + 1
         /\ stateIsInitial' = FALSE
         /\ UNCHANGED <<notifications, subscribers, calls>>

setState(next, sameObject) ==
    IF sameObject
    THEN UNCHANGED <<state, stateRef, stateIsInitial, notifications, subscribers, calls>>
    ELSE \E s \in {Install(Store, next)} :
         /\ state' = s.state
         /\ stateRef' = s.ref
         /\ stateIsInitial' = FALSE
         /\ notifications' = s.merges
         /\ subscribers' = Elements(s.entries)
         /\ calls' = s.log

----------------------------------------------------------------------------
(* Synchronous store: a subclass of SyncExternalStore whose state holds a  *)
(* count and an optional label                                             *)

Counts == {0, 1}
Labels == {"a"}

\* the object given to the constructor; the optional key is not set
CounterInitial == [count |-> 0]

\* an object of the state type, as a record over both keys
CounterState(partial) ==
    [k \in {"count", "label"} |->
        IF k \in DOMAIN partial THEN partial[k] ELSE Absent]

\* the argument of setState: a partial value, or an updater function, which
\* adds to the count, returns the object it was given, or throws
Partials == [count : Counts] \cup [label : Labels]

Updates ==
    [fn : {"none"}, arg : Partials] \cup
    [fn : {"increment", "same", "crash"}, arg : {[count |-> 1]}]

\* typeof update === "function" ? update(prev) : update
ResolveSwallow(update, prev) ==
    CASE update.fn = "none" ->
            [threw |-> FALSE, next |-> update.arg, same |-> FALSE]
      [] update.fn = "increment" ->
            [threw |-> FALSE, next |-> [count |-> prev.count + update.arg.count], same |-> FALSE]
      [] update.fn = "same" ->
            [threw |-> FALSE, next |-> prev, same |-> TRUE]
      [] update.fn = "crash" ->
            [threw |-> FALSE, next |-> [count |-> prev.count], same |-> FALSE]

Resolve(update, prev) ==
    CASE update.fn = "none" ->
            [threw |-> FALSE, next |-> update.arg, same |-> FALSE]
      [] update.fn = "increment" ->
            [threw |-> FALSE, next |-> [count |-> prev.count + update.arg.count], same |-> FALSE]
      [] update.fn = "same" ->
            [threw |-> FALSE, next |-> prev, same |-> TRUE]
      [] update.fn = "crash" ->
            [threw |-> TRUE, next |-> prev, same |-> FALSE]

NoCall == [op |-> "none", arg |-> Absent, outcome |-> "returned"]

\* subscribe(fn), called outside a pass; the caller keeps the function
\* returned by the first subscribe(fn)
Subscribe(fn) ==
    /\ subscribers' = Elements(SetAdd(Entries(subscribers), fn))
    /\ closures' = IF closures[fn] = "none" THEN [closures EXCEPT ![fn] = "held"] ELSE closures
    /\ lastCall' = NoCall
    /\ UNCHANGED <<state, stateRef, stateIsInitial, notifications, behaviour, calls, hook>>
    /\ UNCHANGED asyncVars

\* the function returned by the first subscribe(fn), called outside a pass:
\* () => this.#subscribers.delete(fn)
Unsubscribe(fn) ==
    /\ closures[fn] # "none"
    /\ subscribers' = Elements(SetDelete(Entries(subscribers), fn))
    /\ closures' = [closures EXCEPT ![fn] = "called"]
    /\ lastCall' = [op |-> "unsubscribe", arg |-> fn, outcome |-> "returned"]
    /\ UNCHANGED <<state, stateRef, stateIsInitial, notifications, behaviour, calls, hook>>
    /\ UNCHANGED asyncVars

\* setState(update), called outside a pass.  An updater that throws leaves
\* the call by that exception before anything is assigned.
SetState(update) ==
    /\ notifications < MaxMerges
    /\ LET r == Resolve(update, state) IN
       IF r.threw
       THEN /\ lastCall' = [op |-> "setState", arg |-> update, outcome |-> "threw"]
            /\ UNCHANGED <<state, stateRef, stateIsInitial, notifications, subscribers, calls>>
       ELSE /\ setState(r.next, r.same)
            /\ lastCall' = [op |-> "setState", arg |-> update, outcome |-> "returned"]
    /\ UNCHANGED <<behaviour, closures, hook>>
    /\ UNCHANGED asyncVars

\* reset() on the synchronous store: setState(this.#initialState)
SyncReset ==
    /\ notifications < MaxMerges
    /\ setState(CounterInitial, stateIsInitial)
    /\ lastCall' = [op |-> "reset", arg |-> Absent, outcome |-> "returned"]
    /\ UNCHANGED <<behaviour, closures, hook>>
    /\ UNCHANGED asyncVars

NoHook == [stage |-> "none"]

\* new CounterStore(), with the listener functions the callers will pass
SyncInit ==
    /\ state = CounterState(CounterInitial)
    /\ stateRef = 0
    /\ stateIsInitial = TRUE
    /\ notifications = 0
    /\ subscribers = <<>>
    /\ behaviour \in [Listeners -> UNION {Behaviours(l) : l \in Listeners}]
    /\ \A l \in Listeners : behaviour[l] \in Behaviours(l)
    /\ calls = <<>>
    /\ closures = [l \in Listeners |-> "none"]
    /\ lastCall = NoCall
    /\ hook = NoHook
    /\ seed = Absent
    /\ promises = <<>>
    /\ tasks = <<>>
    /\ controller = 0
    /\ resets = 0
    /\ staleData = Absent
    /\ overlapping = TRUE

SyncNext ==
    \/ \E fn \in Listeners : Subscribe(fn)
    \/ \E fn \in Listeners : Unsubscribe(fn)
    \/ \E update \in Updates : SetState(update)
    \/ SyncReset

SyncSpec == SyncInit /\ [][SyncNext]_vars

----------------------------------------------------------------------------
(* createProvider and the hook it returns *)

\* the names a provider can be created with ("Store" is the default)
DisplayNames == {"Store", "CounterStore", "TodoStore"}

\* store instances; class is the name of the constructor
StoreInstances == [class : {"CounterStore", "TodoStore"}, id : {1, 2}]

\* no Provider is rendered above the hook
NoStore == [class |-> "none", id |-> 0]

\* the selectors a hook can be called with
Selectors == {"identity", "count", "label"}

\* the argument of createProvider: a string or a store
ProviderArgs ==
    [kind : {"string"}, name : DisplayNames] \cup
    [kind : {"store"}, store : StoreInstances]

\* the placeholder whose use() throws
abstractContextAnonymous(displayName) ==
    [kind |-> "abstract", message |-> "Hook must be used within a ExternalStoreProvider"]

abstractContext(displayName) ==
    [kind |-> "abstract",
     message |-> "Hook must be used within a ExternalStoreProvider(" \o displayName \o ")"]

\* createProvider(arg): the display name and the default value of the Context
createProvider(arg) ==
    LET isAbstract == arg.kind = "string"
        displayName == IF isAbstract THEN arg.name ELSE arg.store.class
    IN  [displayName |-> displayName,
         providerName |-> "ExternalStoreProvider(" \o displayName \o ")",
         defaultContextValue |->
            IF isAbstract THEN abstractContext(displayName)
            ELSE [kind |-> "store", store |-> arg.store]]

\* React.useContext(Context): the store of the Provider rendered above the
\* hook, and the default value when there is none
useContext(provider, scope) ==
    IF scope # NoStore THEN [kind |-> "store", store |-> scope]
    ELSE provider.defaultContextValue

\* the hook: (selector) => React.useContext(Context).use(selector)
useHook(provider, scope, sel) ==
    LET context == useContext(provider, scope) IN
    IF context.kind = "abstract"
    THEN [outcome |-> "throw", message |-> context.message]
    ELSE [outcome |-> "return", store |-> context.store, selector |-> sel]

\* ExternalStore.createProvider(arg)
CreateProvider(arg) ==
    /\ hook.stage = "none"
    /\ hook' = [stage |-> "created", arg |-> arg]
    /\ UNCHANGED <<state, stateRef, stateIsInitial, notifications, listenerVars, syncVars>>
    /\ UNCHANGED asyncVars

\* a component calls the hook, below a Provider given the store scope or
\* below none
CallHook(scope, sel) ==
    /\ hook.stage = "created"
    /\ hook' = [stage |-> "called", arg |-> hook.arg, scope |-> scope, selector |-> sel,
                result |-> useHook(createProvider(hook.arg), scope, sel)]
    /\ UNCHANGED <<state, stateRef, stateIsInitial, notifications, listenerVars, syncVars>>
    /\ UNCHANGED asyncVars

ProviderInit ==
    /\ hook = NoHook
    /\ state = CounterState(CounterInitial)
    /\ stateRef = 0
    /\ stateIsInitial = TRUE
    /\ notifications = 0
    /\ subscribers = <<>>
    /\ behaviour = [l \in Listeners |-> [op |-> "nothing", arg |-> l]]
    /\ calls = <<>>
    /\ closures = [l \in Listeners |-> "none"]
    /\ lastCall = NoCall
    /\ seed = Absent
    /\ promises = <<>>
    /\ tasks = <<>>
    /\ controller = 0
    /\ resets = 0
    /\ staleData = Absent
    /\ overlapping = TRUE

ProviderNext ==
    \/ \E arg \in ProviderArgs : CreateProvider(arg)
    \/ \E scope \in StoreInstances \cup {NoStore}, sel \in Selectors : CallHook(scope, sel)

ProviderSpec == ProviderInit /\ [][ProviderNext]_vars

----------------------------------------------------------------------------
(* Deferred handles *)

Unsettled == [settled |-> "no", value |-> Absent]

\* resolve / reject of a handle: a settled promise ignores later calls
SettleAgain(ps, id, how, v) ==
    IF id # NoPromise
    THEN [ps EXCEPT ![id] = [settled |-> how, value |-> v]]
    ELSE ps

SettleNothing(ps, id, how, v) == ps

Settle(ps, id, how, v) ==
    IF id # NoPromise /\ ps[id].settled = "no"
    THEN [ps EXCEPT ![id] = [settled |-> how, value |-> v]]
    ELSE ps

----------------------------------------------------------------------------
(* Suspense read path *)

wrapSelectorForSuspense(s) ==
    IF s.refreshing = TRUE
    THEN [outcome |-> "return", value |-> selector(s.data)]
    ELSE CASE s.status \in {"uninitialized", "pending"} ->
                [outcome |-> "suspend", promise |-> s.promise]
           [] s.status = "error" ->
                [outcome |-> "fail", error |-> s.error]
           [] s.status = "idle" ->
                [outcome |-> "return", value |-> selector(s.data)]

----------------------------------------------------------------------------
(* Task lifecycle *)

\* the snapshot update at the head of setStateAsync (the switch on status);
\* fresh is the id of a handle made by promiseWithResolvers()
PendingUpdateNoRefresh(s, fresh) ==
    CASE s.status \in {"uninitialized", "pending"} ->
            [status |-> "pending", loading |-> TRUE, refreshing |-> FALSE, promise |-> s.promise]
      [] s.status = "idle" ->
            [status |-> "pending", loading |-> TRUE, refreshing |-> FALSE, promise |-> fresh]
      [] s.status = "error" ->
            [status |-> "pending", loading |-> TRUE, refreshing |-> FALSE, promise |-> fresh]

PendingUpdateAlwaysRefresh(s, fresh) ==
    CASE s.status \in {"uninitialized", "pending"} ->
            [status |-> "pending", loading |-> TRUE, refreshing |-> TRUE, promise |-> s.promise]
      [] s.status = "idle" ->
            [status |-> "pending", loading |-> TRUE, refreshing |-> TRUE, data |-> s.data, promise |-> fresh]
      [] s.status = "error" ->
            [status |-> "pending", loading |-> TRUE, refreshing |-> TRUE, promise |-> fresh]

PendingUpdateErrorStuck(s, fresh) ==
    CASE s.status \in {"uninitialized", "pending"} ->
            [status |-> "pending", loading |-> TRUE, refreshing |-> FALSE, promise |-> s.promise]
      [] s.status = "idle" ->
            [status |-> "pending", loading |-> TRUE, refreshing |-> TRUE, data |-> s.data, promise |-> fresh]
      [] s.status = "error" ->
            [status |-> "error"]

PendingUpdateFreshHandle(s, fresh) ==
    CASE s.status \in {"uninitialized", "pending"} ->
            [status |-> "pending", loading |-> TRUE, refreshing |-> FALSE, promise |-> fresh]
      [] s.status = "idle" ->
            [status |-> "pending", loading |-> TRUE, refreshing |-> TRUE, data |-> s.data, promise |-> fresh]
      [] s.status = "error" ->
            [status |-> "pending", loading |-> TRUE, refreshing |-> FALSE, promise |-> fresh]

PendingUpdate(s, fresh) ==
    CASE s.status \in {"uninitialized", "pending"} ->
            [status |-> "pending", loading |-> TRUE, refreshing |-> FALSE, promise |-> s.promise]
      [] s.status = "idle" ->
            [status |-> "pending", loading |-> TRUE, refreshing |-> TRUE, data |-> s.data, promise |-> fresh]
      [] s.status = "error" ->
            [status |-> "pending", loading |-> TRUE, refreshing |-> FALSE, promise |-> fresh]

\* the switch calls promiseWithResolvers() in the idle and error cases
MakesHandle(s) == s.status \in {"idle", "error"}

\* this.#controller?.abort()
AbortNone(ts, c) == ts

AbortCurrent(ts, c) ==
    IF c # 0 THEN [ts EXCEPT ![c].aborted = TRUE] ELSE ts

\* controller.signal.aborted, read by the completion handlers of task t
AbortedNever(t) == FALSE

Aborted(t) == tasks[t].aborted

\* the catch handler's normalisation of the cause into an Error
NormalizeErrorRaw(cause) == cause

NormalizeError(cause) ==
    IF cause \in Errors THEN cause ELSE "Error(cause: " \o cause \o ")"

\* setStateAsync(update) run against the store s: install pending (the pass
\* of that setState runs the listeners, which may call setStateAsync
\* themselves), abort the controller then held, mint a new one, invoke the
\* producer, chain the handlers.  The task records what the producer is
\* given (args) and what it can observe when it is invoked (sees).  A
\* producer that throws leaves the call by that exception: no promise is
\* returned and no handler is chained.
SetStateAsyncOn(s, p, nested) ==
    LET prevState == s.state
        fresh == Len(s.promises) + 1
        next == PendingUpdate(prevState, fresh)
        made == [s EXCEPT !.promises = IF MakesHandle(prevState)
                                        THEN Append(s.promises, Unsettled)
                                        ELSE s.promises]
        Register(installed) ==
            LET aborted == AbortCurrent(installed.tasks, installed.controller)
                id == Len(installed.tasks) + 1
            IN  [installed EXCEPT
                    !.tasks = Append(aborted,
                        [producer  |-> p,
                         from      |-> prevState.status,
                         handle    |-> installed.state.promise,
                         aborted   |-> FALSE,
                         pc        |-> IF p.kind = "throw" THEN "threw" ELSE "running",
                         result    |-> IF p.kind = "throw" THEN "threw" ELSE "pending",
                         committed |-> FALSE,
                         nested    |-> nested,
                         args      |-> [signal |-> id,
                                        prev   |-> [kind |-> "snapshot", value |-> prevState]],
                         sees      |-> [status |-> installed.state.status,
                                        earlierAborted |->
                                            \A t \in 1..Len(aborted) : aborted[t].aborted,
                                        signalAborted |-> FALSE]]),
                    !.controller = id]
    IN  Register(Install(made, next))

\* setStateAsync(update), called from outside a pass
setStateAsync(p) ==
    /\ Len(tasks) < MaxTasks
    /\ \E s \in {SetStateAsyncOn(Store, p, FALSE)} :
          /\ state' = s.state
          /\ stateRef' = s.ref
          /\ stateIsInitial' = FALSE
          /\ notifications' = s.merges
          /\ subscribers' = Elements(s.entries)
          /\ calls' = s.log
          /\ promises' = s.promises
          /\ tasks' = s.tasks
          /\ controller' = s.controller
    /\ staleData' = IF state.status = "idle" THEN state.data ELSE staleData
    /\ overlapping' = (overlapping /\ (Len(tasks) = 0 \/ tasks[Len(tasks)].pc = "running"))
    /\ UNCHANGED <<seed, resets>>
    /\ UNCHANGED <<behaviour, syncVars, hook>>

RunTask == \E p \in Producers : setStateAsync(p)

\* hydrate(state): setStateAsync(() => state)
Hydrate == \E d \in Data : setStateAsync([kind |-> "value", value |-> d])

\* the .then handler of task t, run once the producer's value is available
ThenHandler(t) ==
    /\ tasks[t].pc = "running"
    /\ tasks[t].producer.kind \in {"value", "resolve"}
    /\ IF Aborted(t)
       THEN /\ tasks' = [tasks EXCEPT ![t].pc = "done", ![t].result = "fulfilled"]
            /\ UNCHANGED <<state, stateRef, stateIsInitial, notifications, subscribers, calls,
                           promises, staleData>>
       ELSE LET data == tasks[t].producer.value IN
            /\ setState([status |-> "idle", loading |-> FALSE, refreshing |-> FALSE, data |-> data], FALSE)
            /\ promises' = Settle(promises, state'.promise, "resolved", data)
            /\ tasks' = [tasks EXCEPT ![t].pc = "done", ![t].result = "fulfilled",
                                      ![t].committed = TRUE]
            /\ staleData' = Absent
    /\ UNCHANGED <<seed, controller, resets, overlapping>>
    /\ UNCHANGED <<behaviour, syncVars, hook>>

\* the .catch handler of task t, run once the producer's promise has rejected
CatchHandler(t) ==
    /\ tasks[t].pc = "running"
    /\ tasks[t].producer.kind = "reject"
    /\ IF Aborted(t)
       THEN /\ tasks' = [tasks EXCEPT ![t].pc = "done", ![t].result = "fulfilled"]
            /\ UNCHANGED <<state, stateRef, stateIsInitial, notifications, subscribers, calls,
                           promises, staleData>>
       ELSE LET error == NormalizeError(tasks[t].producer.value) IN
            /\ setState([status |-> "error", loading |-> FALSE, refreshing |-> FALSE, error |-> error], FALSE)
            /\ promises' = Settle(promises, state'.promise, "rejected", error)
            /\ tasks' = [tasks EXCEPT ![t].pc = "done", ![t].result = "fulfilled",
                                      ![t].committed = TRUE]
            /\ staleData' = Absent
    /\ UNCHANGED <<seed, controller, resets, overlapping>>
    /\ UNCHANGED <<behaviour, syncVars, hook>>

\* reset(): setState(this.#initialState)
Reset ==
    /\ resets < MaxResets
    /\ setState(InitialState(seed), stateIsInitial)
    /\ resets' = resets + 1
    /\ staleData' = Absent
    /\ UNCHANGED <<seed, promises, tasks, controller, overlapping>>
    /\ UNCHANGED <<behaviour, syncVars, hook>>

----------------------------------------------------------------------------
(* Specification *)

\* new AsyncExternalStore(initialData?)
Init ==
    /\ seed \in Seeds \cup {Absent}
    /\ state = Complete(InitialState(seed))
    /\ stateRef = 0
    /\ stateIsInitial = TRUE
    /\ promises = IF seed = Absent THEN <<Unsettled>> ELSE <<>>
    /\ tasks = <<>>
    /\ controller = 0
    /\ notifications = 0
    /\ resets = 0
    /\ staleData = Absent
    /\ overlapping = TRUE
    /\ subscribers = <<>>
    /\ behaviour = [l \in Listeners |-> [op |-> "nothing", arg |-> l]]
    /\ calls = <<>>
    /\ closures = [l \in Listeners |-> "none"]
    /\ lastCall = NoCall
    /\ hook = NoHook

Next ==
    \/ RunTask
    \/ Hydrate
    \/ Reset
    \/ \E t \in 1..Len(tasks) : ThenHandler(t)
    \/ \E t \in 1..Len(tasks) : CatchHandler(t)

Spec == Init /\ [][Next]_vars

\* the same store with one listener subscribed, which starts a task of its
\* own the first time it is notified of a pending snapshot:
\* if (store.state.status === "pending" && !fired) { fired = true; store.refetch() }
ReentrantInit ==
    /\ seed \in Seeds \cup {Absent}
    /\ state = Complete(InitialState(seed))
    /\ stateRef = 0
    /\ stateIsInitial = TRUE
    /\ promises = IF seed = Absent THEN <<Unsettled>> ELSE <<>>
    /\ tasks = <<>>
    /\ controller = 0
    /\ notifications = 0
    /\ resets = 0
    /\ staleData = Absent
    /\ overlapping = TRUE
    /\ subscribers = <<"f1">>
    /\ behaviour = [l \in Listeners |->
                        IF l = "f1" THEN [op |-> "setStateAsync", arg |-> l]
                        ELSE [op |-> "nothing", arg |-> l]]
    /\ calls = <<>>
    /\ closures = [l \in Listeners |-> "none"]
    /\ lastCall = NoCall
    /\ hook = NoHook

ReentrantSpec == ReentrantInit /\ [][Next]_vars

----------------------------------------------------------------------------
(* Properties *)

TaskIds == 1..Len(tasks)

\* the chain of task t runs its completion handler in this step
Completes(t) == tasks[t].pc = "running" /\ tasks'[t].pc = "done"

\* the snapshot shows the outcome of task t
ShowsOutcomeOf(t) ==
    IF tasks[t].producer.kind \in {"value", "resolve"}
    THEN state.status = "idle" /\ state.data = tasks[t].producer.value
    ELSE state.status = "error" /\ state.error = NormalizeError(tasks[t].producer.value)

\* C1: when the completion handler of a task runs after a later setStateAsync
\* has aborted its controller, whether the producer succeeded or failed, the
\* snapshot is unchanged, no notification pass runs and no handle is settled.
C1_StaleCompletionDiscarded ==
    [][\A t \in TaskIds :
          (Completes(t) /\ tasks[t].aborted)
              => /\ state' = state
                 /\ notifications' = notifications
                 /\ promises' = promises]_vars

\* a superseded success and a superseded failure have both completed
C1_Witness ==
    \E t1, t2 \in TaskIds :
        /\ tasks[t1].pc = "done" /\ tasks[t1].aborted /\ tasks[t1].producer.kind = "resolve"
        /\ tasks[t2].pc = "done" /\ tasks[t2].aborted /\ tasks[t2].producer.kind = "reject"

\* C2: for overlapping setStateAsync calls t1..tN and nothing else, no task
\* before tN ever installs a snapshot, and once every task has finished the
\* snapshot is tN's outcome: idle with its data, or error with its failure.
C2_LastTaskWins ==
    (overlapping /\ resets = 0 /\ Len(tasks) >= 1) =>
        /\ \A t \in 1..(Len(tasks) - 1) : ~tasks[t].committed
        /\ (\A t \in TaskIds : tasks[t].pc # "running") => ShowsOutcomeOf(Len(tasks))

\* C3: no setStateAsync or hydrate call throws to its caller, and no promise
\* returned by one rejects, whatever the producer does.
C3_NeverThrowsNeverRejects ==
    \A t \in TaskIds : tasks[t].result \notin {"threw", "rejected"}

\* C4: when the producer of the latest setStateAsync call threw synchronously,
\* the snapshot is an error snapshot holding the thrown failure, not pending.
C4_SyncThrowBecomesError ==
    \A t \in TaskIds :
        (tasks[t].producer.kind = "throw" /\ controller = t /\ ~tasks[t].aborted /\ resets = 0)
            => /\ state.status = "error"
               /\ state.error = NormalizeError(tasks[t].producer.value)

\* C5: when the task whose controller is not aborted fails, the snapshot it
\* installs has status error, the normalised failure and no data, also when
\* the pending snapshot carried stale data, and the handle of that snapshot,
\* if there is one, is rejected with the failure.
C5_FailureClearsData ==
    [][\A t \in TaskIds :
          (Completes(t) /\ tasks[t].producer.kind = "reject" /\ ~tasks[t].aborted)
              => /\ state'.status = "error"
                 /\ state'.error = NormalizeError(tasks[t].producer.value)
                 /\ state'.data = Absent
                 /\ state.promise # NoPromise =>
                        promises'[state.promise] =
                            [settled |-> "rejected",
                             value |-> NormalizeError(tasks[t].producer.value)]]_vars

\* C6: every idle snapshot has data and no error, and every error snapshot
\* has an error and no data.
C6_ExactlyOneOfDataError ==
    /\ state.status = "idle" => (state.data # Absent /\ state.error = Absent)
    /\ state.status = "error" => (state.error # Absent /\ state.data = Absent)

\* C7: the snapshot carries a handle exactly when its status is
\* uninitialized or pending.
C7_HandleIffWaiting ==
    (state.promise # NoPromise) <=> (state.status \in {"uninitialized", "pending"})

\* C8: loading is true exactly when the status is pending, and refreshing is
\* true only in a pending snapshot that carries the data of the idle snapshot
\* the task started from.
C8_LoadingRefreshingFlags ==
    /\ (state.loading = TRUE) <=> (state.status = "pending")
    /\ (state.refreshing = TRUE) =>
            /\ state.status = "pending"
            /\ staleData \in Data
            /\ state.data = staleData

\* a refresh is in flight over data that an earlier task committed
C8_Witness ==
    /\ state.refreshing = TRUE
    /\ state.loading = TRUE
    /\ \E t \in TaskIds : tasks[t].committed /\ tasks[t].producer.value = state.data

\* C9: a setStateAsync call made while the status is idle has installed, by
\* the time the call is over, a pending snapshot with refreshing true and the
\* data the snapshot had before the call.
C9_RefreshKeepsData ==
    [][(state.status = "idle" /\ Len(tasks') = Len(tasks) + 1)
          => /\ state'.status = "pending"
             /\ state'.refreshing = TRUE
             /\ state'.data = state.data]_vars

\* the first task of a seeded store has been started and shows the seed
C9_Witness ==
    /\ seed \in Data
    /\ Len(tasks) = 1
    /\ resets = 0
    /\ state.status = "pending"
    /\ state.data = seed

\* C10: from the setStateAsync call that leaves idle until a task commits,
\* whatever further setStateAsync or hydrate calls are made, the read path
\* returns the selector applied to the stale data and does not suspend.
C10_RefreshNeverSuspends ==
    staleData # Absent =>
        /\ wrapSelectorForSuspense(state).outcome = "return"
        /\ wrapSelectorForSuspense(state).value = selector(staleData)

\* a setStateAsync call is made in this step
Issues == Len(tasks') = Len(tasks) + 1

\* the handles of the snapshots on which the read path suspends: those of
\* the uninitialized snapshot and of every pending snapshot without refresh
ExposedHandles ==
    {tasks[t].handle : t \in {u \in TaskIds : tasks[u].from # "idle"}}
        \cup (IF seed = Absent THEN {1} ELSE {})

C12_SuspendsOnUnsettledHandle ==
    wrapSelectorForSuspense(state).outcome = "suspend" =>
        /\ state.promise # NoPromise
        /\ promises[state.promise].settled = "no"

\* C13: once the completion handler of the most recently issued task has
\* run, every handle on which the read path has suspended a reader is
\* settled.
C13_ExposedHandlesSettle ==
    (Len(tasks) >= 1 /\ tasks[Len(tasks)].pc = "done") =>
        \A h \in ExposedHandles : promises[h].settled # "no"

\* C14: on an unseeded store with a single setStateAsync whose producer
\* resolves with d, the snapshots installed are uninitialized, then pending
\* (first notification), then idle with data d (second notification), and the
\* handle the read path suspended on is resolved with d.
C14_FirstLoadSequence ==
    (seed = Absent /\ resets = 0 /\ Len(tasks) = 1 /\ tasks[1].producer.kind = "resolve") =>
        /\ tasks[1].from = "uninitialized"
        /\ tasks[1].handle = 1
        /\ tasks[1].pc = "running" =>
              /\ state.status = "pending"
              /\ notifications = 1
              /\ wrapSelectorForSuspense(state) = [outcome |-> "suspend", promise |-> 1]
              /\ promises[1].settled = "no"
        /\ tasks[1].pc = "done" =>
              /\ state.status = "idle"
              /\ state.data = tasks[1].producer.value
              /\ notifications = 2
              /\ promises[1] = [settled |-> "resolved", value |-> tasks[1].producer.value]

\* the single first load has completed
C14_Witness ==
    /\ seed = Absent /\ resets = 0 /\ Len(tasks) = 1
    /\ tasks[1].producer.kind = "resolve"
    /\ tasks[1].pc = "done"
    /\ notifications = 2

\* C15: hydrate(d) is setStateAsync with a producer that returns d: the call
\* leaves every earlier task aborted and the status pending, an aborted task
\* never commits, and when the handler of the hydrate runs with no later
\* setStateAsync issued the snapshot becomes idle with data d.
C15_HydrateSupersedes ==
    [][/\ (Issues /\ tasks'[Len(tasks')].producer.kind = "value") =>
              /\ \A t \in TaskIds : tasks'[t].aborted
              /\ controller' = Len(tasks')
              /\ state'.status = "pending"
       /\ \A t \in TaskIds :
              (Completes(t) /\ tasks[t].aborted) => ~tasks'[t].committed
       /\ \A t \in TaskIds :
              (Completes(t) /\ tasks[t].producer.kind = "value" /\ t = Len(tasks)) =>
                  /\ state'.status = "idle"
                  /\ state'.data = tasks[t].producer.value]_vars

\* a hydrate superseded a task in flight, which then completed without
\* committing, and the hydrate's data is the snapshot's
C15_Witness ==
    \E t \in TaskIds :
        /\ t > 1 /\ t = Len(tasks)
        /\ tasks[t].producer.kind = "value" /\ tasks[t].committed
        /\ tasks[t - 1].producer.kind \in {"resolve", "reject"}
        /\ tasks[t - 1].pc = "done" /\ ~tasks[t - 1].committed
        /\ state.status = "idle" /\ state.data = tasks[t].producer.value

\* C16: at most one controller minted so far is not aborted, and it is the
\* one held in #controller.
C16_AtMostOneLiveToken ==
    /\ Cardinality({t \in TaskIds : ~tasks[t].aborted}) <= 1
    /\ \A t \in TaskIds : ~tasks[t].aborted => controller = t

\* three tasks are in flight, two of them aborted
C16_Witness ==
    /\ Cardinality({t \in TaskIds : tasks[t].pc = "running"}) >= 3
    /\ Cardinality({t \in TaskIds : tasks[t].aborted}) >= 2

\* C17: every setStateAsync call leaves the status pending, whatever it was,
\* and a task started from error whose producer succeeds turns that pending
\* snapshot into idle with the produced data.
C17_NoTerminalStatus ==
    [][/\ Issues => (state'.status = "pending" /\ notifications' = notifications + 1)
       /\ \A t \in TaskIds :
              (/\ Completes(t)
               /\ ~tasks[t].aborted
               /\ tasks[t].from = "error"
               /\ tasks[t].producer.kind \in {"value", "resolve"}
               /\ state.status = "pending")
                  => /\ state'.status = "idle"
                     /\ state'.data = tasks[t].producer.value
                     /\ notifications' = notifications + 1]_vars

\* a task started from error has committed its data
C17_Witness ==
    \E t \in TaskIds :
        /\ tasks[t].from = "error"
        /\ tasks[t].committed
        /\ state.status = "idle"
        /\ state.data = tasks[t].producer.value

\* C18: the error of an error snapshot is an Error: the cause itself when the
\* producer failed with an Error, otherwise a new Error that holds the cause.
C18_ErrorIsNormalized ==
    [][\A t \in TaskIds :
          (Completes(t) /\ tasks'[t].committed /\ tasks[t].producer.kind = "reject") =>
              LET cause == tasks[t].producer.value IN
              /\ state'.status = "error"
              /\ cause \in Errors => state'.error = cause
              /\ cause \notin Errors =>
                    /\ state'.error \notin Causes
                    /\ state'.error = "Error(cause: " \o cause \o ")"]_vars

\* a failure that is not an Error has been recorded
C18_Witness ==
    \E t \in TaskIds :
        /\ tasks[t].committed
        /\ tasks[t].producer.kind = "reject"
        /\ tasks[t].producer.value \in NonErrors
        /\ state.status = "error"
        /\ state.error \notin Causes

\* the functions invoked in the latest pass, in order
RECURSIVE Invoked(_)
Invoked(log) ==
    IF log = <<>> THEN <<>> ELSE <<log[1].fn>> \o Invoked(Tail(log))

\* a setState call installs a snapshot and runs a notification pass in this step
Notifies == notifications' = notifications + 1

\* C19: a setState that installs a new snapshot invokes, before it returns,
\* every listener registered at that moment exactly once, in registration
\* order, and each of them can already read the new snapshot.
C19_EveryListenerOnceInOrder ==
    [][Notifies =>
          /\ \A i \in 1..Len(subscribers) :
                Cardinality({j \in 1..Len(calls') : calls'[j].fn = subscribers[i]}) = 1
          /\ SelectSeq(Invoked(calls'), LAMBDA fn : \E i \in 1..Len(subscribers) : subscribers[i] = fn)
                = subscribers
          /\ \A j \in 1..Len(calls') : calls'[j].seen = state']_vars

\* C20: subscribing or unsubscribing from inside a listener does not change
\* the running pass: a listener added during the pass is not invoked in it,
\* and a listener registered when the pass began is invoked in it even if it
\* is removed before its turn.
C20_PassIgnoresSetChanges ==
    [][(Notifies /\ subscribers' # subscribers) =>
          {calls'[j].fn : j \in 1..Len(calls')} = {subscribers[i] : i \in 1..Len(subscribers)}]_vars

\* a call made on the synchronous store in this step is setState(update)
\* with an update of the given kind
CallsSetState(kind) ==
    /\ lastCall'.op = "setState"
    /\ lastCall'.arg.fn = kind

\* nothing that a setState call can change has changed in this step
StoreUntouched ==
    /\ state' = state
    /\ stateRef' = stateRef
    /\ notifications' = notifications
    /\ subscribers' = subscribers
    /\ calls' = calls

\* C21: when a listener calls setState during a pass, so that one call makes
\* two merges, every listener registered when the call is made is invoked
\* exactly once in the pass of each merge, and the invocations of the nested
\* merge's pass are made in one block, finished before the outer pass goes on.
C21_ReentrantPassesComplete ==
    [][notifications' = notifications + 2 =>
          /\ \A i \in 1..Len(subscribers) :
                \A p \in {notifications + 1, notifications + 2} :
                    Cardinality({j \in 1..Len(calls') :
                                    calls'[j].fn = subscribers[i] /\ calls'[j].pass = p}) = 1
          /\ \A j, k \in 1..Len(calls') :
                (j < k /\ calls'[j].pass = notifications + 2 /\ calls'[k].pass = notifications + 2)
                    => \A m \in j..k : calls'[m].pass = notifications + 2]_vars

\* C22: the function returned by subscribe(fn) removes fn from the set the
\* first time it is called and leaves the set as it is on every later call,
\* also when fn has been subscribed again since.
C22_UnsubscribeOnce ==
    [][lastCall'.op = "unsubscribe" =>
          LET fn == lastCall'.arg IN
          IF closures[fn] = "called"
          THEN subscribers' = subscribers
          ELSE subscribers' = SelectSeq(subscribers, LAMBDA g : g # fn)]_vars

\* C23: setState with an updater that returns the object it was given
\* changes neither the snapshot nor its identity and runs no pass.
C23_SameObjectIsNoOp ==
    [][CallsSetState("same") => (lastCall'.outcome = "returned" /\ StoreUntouched)]_vars

\* the identity updater was applied to a snapshot installed by a merge, with
\* a listener registered
C23_Witness ==
    /\ lastCall.op = "setState"
    /\ lastCall.arg.fn = "same"
    /\ stateRef >= 1
    /\ Len(subscribers) >= 1

\* C24: setState with an updater that throws leaves by that exception, with
\* the snapshot unchanged and no listener invoked.
C24_ThrowingUpdaterLeavesStore ==
    [][CallsSetState("crash") => (lastCall'.outcome = "threw" /\ StoreUntouched)]_vars

\* an updater threw after a merge, with a listener registered
C24_Witness ==
    /\ lastCall.op = "setState"
    /\ lastCall.outcome = "threw"
    /\ stateRef >= 1
    /\ Len(subscribers) >= 1

\* C25: a setState call that makes one merge leaves the snapshot with the
\* keys of the update (the partial value, or what the updater returns for
\* the snapshot current at the call) overwritten and every other key as it
\* was.
C25_MergeOverwritesUpdateKeys ==
    [][(lastCall'.op = "setState" /\ lastCall'.outcome = "returned"
            /\ notifications' = notifications + 1) =>
          LET u == lastCall'.arg
              resolved == IF u.fn = "none" THEN u.arg
                          ELSE [count |-> state.count + u.arg.count]
          IN  \A k \in {"count", "label"} :
                state'[k] = IF k \in DOMAIN resolved THEN resolved[k] ELSE state[k]]_vars

\* two updater calls in a row, the second applied to the result of the first
C25_Witness ==
    /\ lastCall.op = "setState"
    /\ lastCall.arg.fn = "increment"
    /\ state.count = 2
    /\ notifications = 2

\* C26: reset() on the synchronous store leaves a snapshot equal by value to
\* the initial one, and runs a pass when the snapshot was different.
C26_SyncResetRestoresInitial ==
    [][lastCall'.op = "reset" =>
          /\ state' = CounterState(CounterInitial)
          /\ state # CounterState(CounterInitial) => notifications' > notifications]_vars

\* C27: reset() on the asynchronous store installs the snapshot built at
\* construction: same status, and no data, error or handle of a later
\* transition.
C27_ResetReplacesSnapshot ==
    [][resets' = resets + 1 => state' = Complete(InitialState(seed))]_vars

\* C28: the object the state getter returns changes only in a step that
\* notifies, and the object given to the constructor is the snapshot exactly
\* as long as no other has been installed.
C28_ReferenceStableBetweenPasses ==
    [][/\ stateRef' # stateRef => notifications' > notifications
       /\ stateIsInitial' <=> (stateRef' = 0)]_vars

\* a call that installs nothing was made after a merge
C28_Witness ==
    /\ stateRef = 1
    /\ notifications = 1
    /\ ~stateIsInitial
    /\ lastCall.op = "setState"
    /\ lastCall.arg.fn \in {"same", "crash"}

\* C29: the hook of a provider created with a display name, called below no
\* Provider, throws an Error whose message names that provider; called below
\* a Provider it uses the Provider's store, and the hook of a provider
\* created with a store uses that store when there is no Provider.
C29_HookProxiesOrThrows ==
    hook.stage = "called" =>
        LET provider == createProvider(hook.arg) IN
        /\ (hook.arg.kind = "string" /\ hook.scope = NoStore) =>
              /\ hook.result.outcome = "throw"
              /\ provider.displayName = hook.arg.name
              /\ hook.result.message = "Hook must be used within a " \o provider.providerName
        /\ hook.scope # NoStore =>
              hook.result = [outcome |-> "return", store |-> hook.scope, selector |-> hook.selector]
        /\ (hook.arg.kind = "store" /\ hook.scope = NoStore) =>
              hook.result = [outcome |-> "return", store |-> hook.arg.store, selector |-> hook.selector]

\* the hook of a provider named by a string was called below no Provider
C29_Witness ==
    /\ hook.stage = "called"
    /\ hook.arg.kind = "string"
    /\ hook.arg.name = "CounterStore"
    /\ hook.scope = NoStore
    /\ hook.result.outcome = "throw"

\* C30: on a store constructed without data, as long as no task has
\* committed, the read path suspends on the handle made by the constructor,
\* however many setStateAsync calls have been made.
C30_EarlyReadersShareHandle ==
    (seed = Absent /\ \A t \in TaskIds : ~tasks[t].committed) =>
        wrapSelectorForSuspense(state) = [outcome |-> "suspend", promise |-> 1]

\* three tasks superseded one another before any commit
C30_Witness ==
    /\ seed = Absent
    /\ Len(tasks) >= 3
    /\ \A t \in TaskIds : ~tasks[t].committed
    /\ Cardinality({t \in TaskIds : tasks[t].aborted}) >= 2
    /\ wrapSelectorForSuspense(state).outcome = "suspend"

C32_NestedTaskWins ==
    \A t \in TaskIds :
        (tasks[t].nested /\ Len(tasks) = t + 1 /\ resets = 0) =>
            /\ controller = t
            /\ ~tasks[t].aborted
            /\ tasks[t + 1].aborted
            /\ (\A u \in TaskIds : tasks[u].pc # "running") => ShowsOutcomeOf(t)

\* C33: a completion handler that installs an idle or error snapshot does
\* so over a pending snapshot, also when reset() was called while its task
\* was in flight.
C33_CommitFollowsPending ==
    [][\A t \in TaskIds :
          (Completes(t) /\ tasks'[t].committed) => state.status = "pending"]_vars

\* C34: a setStateAsync or hydrate call commits nothing itself: when it is
\* over the status is pending and its task has not completed, even when the
\* producer returned a value; every task issued before it is aborted, and
\* the handler of a hydrate aborted that way leaves the snapshot alone.
C34_CommitAfterCallReturns ==
    [][/\ Issues =>
              /\ state'.status = "pending"
              /\ tasks'[Len(tasks')].pc # "done"
              /\ ~tasks'[Len(tasks')].committed
              /\ \A t \in TaskIds :
                    /\ tasks'[t].committed = tasks[t].committed
                    /\ tasks'[t].aborted
       /\ \A t \in TaskIds :
              (Completes(t) /\ tasks[t].producer.kind = "value" /\ tasks[t].aborted) =>
                  /\ state' = state
                  /\ ~tasks'[t].committed]_vars

\* hydrate(d2) was followed at once by a task that committed d1; the
\* hydrate's handler has run and d2 is not in the snapshot
C34_Witness ==
    \E t \in TaskIds :
        /\ t < Len(tasks)
        /\ tasks[t].producer = [kind |-> "value", value |-> "d2"]
        /\ tasks[t].pc = "done" /\ ~tasks[t].committed
        /\ tasks[t + 1].producer.value = "d1" /\ tasks[t + 1].committed
        /\ \A u \in TaskIds : u < t => tasks[u].producer.value # "d2"
        /\ state.status = "idle" /\ state.data = "d1"

====
